---- MODULE Spec2Model ----
(***************************************************************************)
(* Model of src/main.py: a worker directory kept in one SQLite table       *)
(* (workers.db) and served by MyRequestHandler over HTTP.                  *)
(*                                                                         *)
(* Python values are tagged records ([t |-> "null"], [t |-> "int"], ...).  *)
(* A URL path or a path segment is a sequence of tokens: "/" and "?" are   *)
(* the separators, the words and the decimal digits are atoms.             *)
(***************************************************************************)
EXTENDS Integers, Sequences, FiniteSets, TLC

\* Largest id the store hands out in the model (adds stop there).
MaxId == 2

\* Connections that clients hold open at the same time.
NSlots == 2

\* ------------------------------------------------------------------------
\* Python / SQLite values
\* ------------------------------------------------------------------------

\* Python's None, and SQL NULL when bound as a parameter
None == [t |-> "null"]

\* SQL NULL inside a TEXT column; not a member of Text
NULL == "<NULL>"

\* str values a form field or a caller supplies
Text == {"", "A", "B"}

PyInt(i) == [t |-> "int", v |-> i]

PyStr(s) == [t |-> "str", v |-> s]

Digits == {"0", "1", "2", "3", "4", "5", "6", "7", "8", "9"}

DigitVal(c) ==
    CASE c = "0" -> 0 [] c = "1" -> 1 [] c = "2" -> 2 [] c = "3" -> 3
      [] c = "4" -> 4 [] c = "5" -> 5 [] c = "6" -> 6 [] c = "7" -> 7
      [] c = "8" -> 8 [] c = "9" -> 9

DigitTok(i) == CHOOSE c \in Digits : DigitVal(c) = i

\* the text looks like an integer literal
IsNumeric(s) == Len(s) > 0 /\ \A k \in 1..Len(s) : s[k] \in Digits

RECURSIVE NumVal(_)
NumVal(s) == IF s = <<>> THEN 0
             ELSE 10 * NumVal(SubSeq(s, 1, Len(s) - 1)) + DigitVal(s[Len(s)])

\* the value of the longest prefix of digits, as CAST(? AS INTEGER) reads text
RECURSIVE PrefixVal(_, _)
PrefixVal(s, acc) ==
    IF s = <<>> \/ Head(s) \notin Digits THEN acc
    ELSE PrefixVal(Tail(s), 10 * acc + DigitVal(Head(s)))

\* variant: the parameter is cast to an integer before the comparison
IdMatches_cast(id, w) ==
    CASE w.t = "int" -> id = w.v
      [] w.t = "str" -> id = PrefixVal(w.v, 0)
      [] OTHER -> FALSE

\* "WHERE id = ?": the INTEGER affinity of the id column is applied to the
\* bound parameter; text that is not numeric, and NULL, match no row.
IdMatches(id, w) ==
    CASE w.t = "int" -> id = w.v
      [] w.t = "str" -> IsNumeric(w.v) /\ id = NumVal(w.v)
      [] OTHER -> FALSE

\* ------------------------------------------------------------------------
\* The workers table
\* ------------------------------------------------------------------------

\* db.rows : id -> [name, position, department];  db.seq : sqlite_sequence
EmptyDb == [rows |-> << >>, seq |-> 0]

SetMax(S) == IF S = {} THEN 0 ELSE CHOOSE m \in S : \A x \in S : x <= m

\* CREATE TABLE IF NOT EXISTS: an existing table is left as it is
init_db(db) == db

\* variant: the position and department columns read in the wrong order
RowDict_swapped(db, id) ==
    [t |-> "dict", id |-> id, name |-> db.rows[id].name,
     position |-> db.rows[id].department, department |-> db.rows[id].position]

RowDict(db, id) ==
    [t |-> "dict", id |-> id, name |-> db.rows[id].name,
     position |-> db.rows[id].position, department |-> db.rows[id].department]

RECURSIVE RowsFrom(_, _)
RowsFrom(db, ids) ==
    IF ids = {} THEN <<>>
    ELSE LET lo == CHOOSE i \in ids : \A j \in ids : i <= j
         IN  <<RowDict(db, lo)>> \o RowsFrom(db, ids \ {lo})

\* SELECT ... FROM workers: a scan of the rowid table
get_all_workers(db) == RowsFrom(db, DOMAIN db.rows)

\* variant: a SELECT that lost its WHERE clause returns the first row
get_worker_by_id_nowhere(db, worker_id) ==
    IF DOMAIN db.rows = {} THEN None
    ELSE RowDict(db, CHOOSE i \in DOMAIN db.rows : \A j \in DOMAIN db.rows : i <= j)

get_worker_by_id(db, worker_id) ==
    LET hit == {i \in DOMAIN db.rows : IdMatches(i, worker_id)}
    IN  IF hit = {} THEN None ELSE RowDict(db, CHOOSE i \in hit : TRUE)

\* variant: a plain INTEGER PRIMARY KEY takes one more than the largest rowid
\* now in the table
NextRowId_rowid(db) == SetMax(DOMAIN db.rows) + 1

\* AUTOINCREMENT: one more than the largest rowid ever used
NextRowId(db) == SetMax(DOMAIN db.rows \cup {db.seq}) + 1

\* variant: position and department bound in the wrong order
add_worker_swapped(db, name, position, department) ==
    LET id == SetMax(DOMAIN db.rows \cup {db.seq}) + 1
        row == [name |-> name, position |-> department,
                department |-> position]
    IN  [db  |-> [rows |-> [i \in DOMAIN db.rows \cup {id} |->
                               IF i = id THEN row ELSE db.rows[i]],
                  seq  |-> id],
         ret |-> None, exc |-> ""]

\* INSERT; name is NOT NULL. The function has no return statement.
add_worker(db, name, position, department) ==
    IF name = NULL
    THEN [db |-> db, ret |-> None, exc |-> "IntegrityError"]
    ELSE LET id == NextRowId(db)
             row == [name |-> name, position |-> position,
                     department |-> department]
         IN  [db  |-> [rows |-> [i \in DOMAIN db.rows \cup {id} |->
                                    IF i = id THEN row ELSE db.rows[i]],
                       seq  |-> id],
              ret |-> None, exc |-> ""]

\* variant: an UPDATE that lost its WHERE clause overwrites every row
update_worker_nowhere(db, worker_id, name, position, department) ==
    [db  |-> [db EXCEPT !.rows =
                 [i \in DOMAIN db.rows |->
                    [name |-> name, position |-> position,
                     department |-> department]]],
     ret |-> None, exc |-> ""]

\* variant: the statement is an INSERT, as in add_worker
update_worker_insert(db, worker_id, name, position, department) ==
    LET id == SetMax(DOMAIN db.rows \cup {db.seq}) + 1
    IN  [db  |-> [rows |-> [i \in DOMAIN db.rows \cup {id} |->
                               IF i = id
                               THEN [name |-> name, position |-> position,
                                     department |-> department]
                               ELSE db.rows[i]],
                  seq  |-> id],
         ret |-> None, exc |-> ""]

update_worker(db, worker_id, name, position, department) ==
    IF name = NULL /\ \E i \in DOMAIN db.rows : IdMatches(i, worker_id)
    THEN [db |-> db, ret |-> None, exc |-> "IntegrityError"]
    ELSE [db  |-> [db EXCEPT !.rows =
                      [i \in DOMAIN db.rows |->
                         IF IdMatches(i, worker_id)
                         THEN [name |-> name, position |-> position,
                               department |-> department]
                         ELSE db.rows[i]]],
          ret |-> None, exc |-> ""]

\* variant: the DELETE is never committed
delete_worker_nocommit(db, worker_id) ==
    [db |-> db, ret |-> None, exc |-> ""]

\* variant: a DELETE that lost its WHERE clause empties the table
delete_worker_nowhere(db, worker_id) ==
    [db |-> [db EXCEPT !.rows = << >>], ret |-> None, exc |-> ""]

delete_worker(db, worker_id) ==
    [db  |-> [db EXCEPT !.rows =
                 [i \in {j \in DOMAIN db.rows : ~IdMatches(j, worker_id)} |->
                    db.rows[i]]],
     ret |-> None, exc |-> ""]

\* ------------------------------------------------------------------------
\* Request parsing
\* ------------------------------------------------------------------------

\* urllib.parse.urlparse(self.path).path: the part before the query
RECURSIVE urlparse_path(_)
urlparse_path(p) ==
    IF p = <<>> \/ Head(p) = "?" THEN <<>>
    ELSE <<Head(p)>> \o urlparse_path(Tail(p))

RECURSIVE lstrip(_)
lstrip(p) == IF p # <<>> /\ Head(p) = "/" THEN lstrip(Tail(p)) ELSE p

RECURSIVE rstrip(_)
rstrip(p) == IF p # <<>> /\ p[Len(p)] = "/"
             THEN rstrip(SubSeq(p, 1, Len(p) - 1)) ELSE p

\* str.strip("/")
strip(p) == rstrip(lstrip(p))

\* str.split("/"): one more part than there are separators
RECURSIVE split(_)
split(p) ==
    IF \A k \in 1..Len(p) : p[k] # "/" THEN <<p>>
    ELSE LET k == CHOOSE i \in 1..Len(p) :
                     p[i] = "/" /\ \A j \in 1..(i - 1) : p[j] # "/"
         IN  <<SubSeq(p, 1, k - 1)>> \o split(SubSeq(p, k + 1, Len(p)))

\* parse_qsl drops the pairs whose value is blank
RECURSIVE parse_qsl(_)
parse_qsl(body) ==
    IF body = <<>> THEN <<>>
    ELSE IF Head(body)[2] = "" THEN parse_qsl(Tail(body))
         ELSE <<Head(body)>> \o parse_qsl(Tail(body))

\* variant: .get(key) without the default gives None, bound as NULL
dict_get_nodefault(pairs, key, default) ==
    LET ks == {k \in 1..Len(pairs) : pairs[k][1] = key}
    IN  IF ks = {} THEN NULL ELSE pairs[SetMax(ks)][2]

\* dict(pairs).get(key, default): the last pair of a key wins
dict_get(pairs, key, default) ==
    LET ks == {k \in 1..Len(pairs) : pairs[k][1] = key}
    IN  IF ks = {} THEN default ELSE pairs[SetMax(ks)][2]

\* ------------------------------------------------------------------------
\* MyRequestHandler
\* ------------------------------------------------------------------------

StoreCall(fn, worker_id, name, position, department) ==
    [fn |-> fn, worker_id |-> worker_id, name |-> name,
     position |-> position, department |-> department]

\* send_response(200) followed by the rendered template
Page(template, worker, workers, action, message, calls) ==
    [status |-> 200, template |-> template, worker |-> worker,
     workers |-> workers, action |-> action, message |-> message,
     calls |-> calls]

\* send_error(code, ...)
send_error(code, calls) ==
    [status |-> code, template |-> "", worker |-> None, workers |-> <<>>,
     action |-> <<>>, message |-> <<>>, calls |-> calls]

\* an exception leaves the handler: the connection closes with no response
Crash(calls) == send_error(0, calls)

\* variant: the edit form is rendered as the add form is, with worker=None
get_edit_blank(db, worker_id) ==
    LET worker == get_worker_by_id(db, worker_id)
        calls  == <<StoreCall("get_worker_by_id", worker_id, "", "", "")>>
    IN  IF worker # None
        THEN [db |-> db,
              resp |-> Page("worker_form.html", None, <<>>,
                            <<"/", "workers", "/", "edit", "/">> \o worker_id.v,
                            <<>>, calls)]
        ELSE [db |-> db, resp |-> send_error(404, calls)]

\* GET /workers/edit/<id>
get_edit(db, worker_id) ==
    LET worker == get_worker_by_id(db, worker_id)
        calls  == <<StoreCall("get_worker_by_id", worker_id, "", "", "")>>
    IN  IF worker # None
        THEN [db |-> db,
              resp |-> Page("worker_form.html", worker, <<>>,
                            <<"/", "workers", "/", "edit", "/">> \o worker_id.v,
                            <<>>, calls)]
        ELSE [db |-> db, resp |-> send_error(404, calls)]

\* variant: the delete route without the existence check
get_delete_nocheck(db, worker_id) ==
    [db |-> delete_worker(db, worker_id).db,
     resp |-> Page("message.html", None, <<>>, <<>>, worker_id.v,
                   <<StoreCall("delete_worker", worker_id, "", "", "")>>)]

\* variant: the delete route fetches the worker again after the delete
get_delete_recheck(db, worker_id) ==
    LET worker == get_worker_by_id(db, worker_id)
        calls  == <<StoreCall("get_worker_by_id", worker_id, "", "", "")>>
    IN  IF worker # None
        THEN [db |-> delete_worker(db, worker_id).db,
              resp |-> Page("message.html", None, <<>>, <<>>, worker_id.v,
                            calls \o <<StoreCall("delete_worker",
                                                 worker_id, "", "", ""),
                                       StoreCall("get_worker_by_id",
                                                 worker_id, "", "", "")>>)]
        ELSE [db |-> db, resp |-> send_error(404, calls)]

\* GET /workers/delete/<id>
get_delete(db, worker_id) ==
    LET worker == get_worker_by_id(db, worker_id)
        calls  == <<StoreCall("get_worker_by_id", worker_id, "", "", "")>>
    IN  IF worker # None
        THEN [db |-> delete_worker(db, worker_id).db,
              resp |-> Page("message.html", None, <<>>, <<>>, worker_id.v,
                            Append(calls, StoreCall("delete_worker",
                                                    worker_id, "", "", "")))]
        ELSE [db |-> db, resp |-> send_error(404, calls)]

do_GET(db, path) ==
    LET parsed_path == urlparse_path(path)
        path_parts  == split(strip(parsed_path))
    IN
    IF parsed_path = <<"/">>
    THEN [db |-> db, resp |-> Page("index.html", None, <<>>, <<>>, <<>>, <<>>)]
    ELSE IF parsed_path = <<"/", "workers">>
    THEN [db |-> db,
          resp |-> Page("workers_list.html", None, get_all_workers(db), <<>>,
                        <<>>, <<StoreCall("get_all_workers", None, "", "", "")>>)]
    ELSE IF Len(path_parts) = 2 /\ path_parts[1] = <<"workers">>
            /\ path_parts[2] = <<"add">>
    THEN [db |-> db,
          resp |-> Page("worker_form.html", None, <<>>,
                        <<"/", "workers", "/", "add">>, <<>>, <<>>)]
    ELSE IF Len(path_parts) = 3 /\ path_parts[1] = <<"workers">>
            /\ path_parts[2] = <<"edit">>
    THEN get_edit(db, PyStr(path_parts[3]))
    ELSE IF Len(path_parts) = 3 /\ path_parts[1] = <<"workers">>
            /\ path_parts[2] = <<"delete">>
    THEN get_delete(db, PyStr(path_parts[3]))
    ELSE [db |-> db, resp |-> send_error(404, <<>>)]

\* variant: department and position passed to add_worker in the wrong order
post_add_swapped(db, data_dict) ==
    LET name       == dict_get(data_dict, "name", "")
        position   == dict_get(data_dict, "position", "")
        department == dict_get(data_dict, "department", "")
        r          == add_worker(db, name, department, position)
        calls      == <<StoreCall("add_worker", None, name, department, position)>>
    IN  IF r.exc # "" THEN [db |-> r.db, resp |-> Crash(calls)]
        ELSE [db |-> r.db,
              resp |-> Page("message.html", None, <<>>, <<>>, <<name>>, calls)]

\* POST /workers/add
post_add(db, data_dict) ==
    LET name       == dict_get(data_dict, "name", "")
        position   == dict_get(data_dict, "position", "")
        department == dict_get(data_dict, "department", "")
        r          == add_worker(db, name, position, department)
        calls      == <<StoreCall("add_worker", None, name, position, department)>>
    IN  IF r.exc # "" THEN [db |-> r.db, resp |-> Crash(calls)]
        ELSE [db |-> r.db,
              resp |-> Page("message.html", None, <<>>, <<>>, <<name>>, calls)]

\* variant: the edit route without the existence check
post_edit_nocheck(db, worker_id, data_dict) ==
    LET name       == dict_get(data_dict, "name", "")
        position   == dict_get(data_dict, "position", "")
        department == dict_get(data_dict, "department", "")
        r  == update_worker(db, worker_id, name, position, department)
        cs == <<StoreCall("update_worker", worker_id, name, position, department)>>
    IN  IF r.exc # "" THEN [db |-> r.db, resp |-> Crash(cs)]
        ELSE [db |-> r.db,
              resp |-> Page("message.html", None, <<>>, <<>>, worker_id.v, cs)]

\* POST /workers/edit/<id>
post_edit(db, worker_id, data_dict) ==
    LET worker == get_worker_by_id(db, worker_id)
        calls  == <<StoreCall("get_worker_by_id", worker_id, "", "", "")>>
    IN  IF worker # None
        THEN LET name       == dict_get(data_dict, "name", "")
                 position   == dict_get(data_dict, "position", "")
                 department == dict_get(data_dict, "department", "")
                 r  == update_worker(db, worker_id, name, position, department)
                 cs == Append(calls, StoreCall("update_worker", worker_id,
                                               name, position, department))
             IN  IF r.exc # "" THEN [db |-> r.db, resp |-> Crash(cs)]
                 ELSE [db |-> r.db,
                       resp |-> Page("message.html", None, <<>>, <<>>,
                                     worker_id.v, cs)]
        ELSE [db |-> db, resp |-> send_error(404, calls)]

do_POST(db, path, body) ==
    LET parsed_path == urlparse_path(path)
        path_parts  == split(strip(parsed_path))
        data_dict   == parse_qsl(body)
    IN
    IF parsed_path = <<"/", "workers", "/", "add">>
    THEN post_add(db, data_dict)
    ELSE IF Len(path_parts) = 3 /\ path_parts[1] = <<"workers">>
            /\ path_parts[2] = <<"edit">>
    THEN post_edit(db, PyStr(path_parts[3]), data_dict)
    ELSE [db |-> db, resp |-> send_error(404, <<>>)]

\* variant: every method other than POST is served as a GET
handle_one_request_as_get(db, method, path, body) ==
    IF method = "POST" THEN do_POST(db, path, body) ELSE do_GET(db, path)

\* BaseHTTPRequestHandler answers 501 to a method that has no do_<METHOD>
handle_one_request(db, method, path, body) ==
    IF method = "GET" THEN do_GET(db, path)
    ELSE IF method = "POST" THEN do_POST(db, path, body)
    ELSE [db |-> db, resp |-> send_error(501, <<>>)]

\* sqlite3.OperationalError, raised by a store function whose statement fails
OperationalError == [t |-> "exc", v |-> "OperationalError"]

\* The handler when its k-th store call raises: neither do_GET nor do_POST
\* has a try, so the exception leaves the handler before send_response;
\* "with sqlite3.connect(...)" rolls the failed statement back, and the calls
\* before it were reads.
handle_with_failure(db, method, path, body, k) ==
    LET r == handle_one_request(db, method, path, body)
    IN  IF Len(r.resp.calls) < k THEN r
        ELSE [db |-> db, resp |-> Crash(SubSeq(r.resp.calls, 1, k))]

\* ------------------------------------------------------------------------
\* Inputs
\* ------------------------------------------------------------------------

\* ids a caller of the store functions passes
IdArgs == {PyInt(i) : i \in 1..MaxId}

\* third path segments: every id in decimal, one with a leading zero, a word,
\* digits followed by a word
IdSegs == {<<DigitTok(i)>> : i \in 1..MaxId}
          \cup {<<"0", "1">>, <<"x">>, <<"1", "x">>}

Paths ==
    {<<"/">>, <<"/", "workers">>, <<"/", "workers", "/">>,
     <<"/", "workers", "?", "x">>, <<"/", "x">>,
     <<"/", "workers", "/", "add">>, <<"/", "workers", "/", "add", "/">>,
     <<"/", "workers", "/", "edit">>,
     <<"/", "workers", "/", "edit", "/", "1", "/", "x">>}
    \cup {<<"/", "workers", "/", "edit", "/">> \o s : s \in IdSegs}
    \cup {<<"/", "workers", "/", "delete", "/">> \o s : s \in IdSegs}

\* form bodies, as the (key, value) pairs between the "&"
Bodies ==
    {<<>>,
     <<<<"name", "A">>, <<"position", "B">>, <<"department", "A">>>>,
     <<<<"name", "">>, <<"department", "B">>>>,
     <<<<"name", "A">>, <<"other", "A">>, <<"name", "B">>>>}

\* (name, position, department) a caller of the store functions passes
WorkerInputs ==
    {<<"A", "B", "A">>, <<"", "", "B">>, <<"B", "", "">>, <<"", "", "">>}

\* the two form bodies of the end-to-end scenario, percent-decoded:
\* name=Alice&position=Engineer&department=R%26D and the same with Lead
AliceBody ==
    <<<<"name", "Alice">>, <<"position", "Engineer">>, <<"department", "R&D">>>>

LeadBody ==
    <<<<"name", "Alice">>, <<"position", "Lead">>, <<"department", "R&D">>>>

ScenarioBodies == {AliceBody, LeadBody}

OtherMethods == {"PUT", "DELETE", "HEAD"}

\* ------------------------------------------------------------------------
\* State
\* ------------------------------------------------------------------------

VARIABLES
    db,      \* the workers table of workers.db
    req,     \* the last call or request
    resp,    \* the response written to the last request
    ret,     \* the value returned by the last call of a store function
    live,    \* history: id -> fields of the latest add/update, ids not deleted
    issued,  \* history: the ids the adds assigned, in order
    pre,     \* history: the table before the last call or request
    flight   \* the requests in flight, one per open connection

vars == <<db, req, resp, ret, live, issued, pre, flight>>

Request(src, method, path, body, worker_id, name, position, department) ==
    [src |-> src, method |-> method, path |-> path, body |-> body,
     worker_id |-> worker_id, name |-> name, position |-> position,
     department |-> department]

NoResponse(calls) == send_error(0, calls)

Fields(name, position, department) ==
    [name |-> name, position |-> position, department |-> department]

\* the ids a step added to the table
NewIds(before, after) == DOMAIN after.rows \ DOMAIN before.rows

\* history of one store call
Track(h, c, new) ==
    IF c.fn = "add_worker"
    THEN [i \in DOMAIN h \cup new |->
            IF i \in new THEN Fields(c.name, c.position, c.department) ELSE h[i]]
    ELSE IF c.fn = "update_worker"
    THEN [i \in DOMAIN h |->
            IF IdMatches(i, c.worker_id)
            THEN Fields(c.name, c.position, c.department) ELSE h[i]]
    ELSE IF c.fn = "delete_worker"
    THEN [i \in {j \in DOMAIN h : ~IdMatches(j, c.worker_id)} |-> h[i]]
    ELSE h

RECURSIVE TrackAll(_, _, _)
TrackAll(h, calls, new) ==
    IF calls = <<>> THEN h
    ELSE TrackAll(Track(h, Head(calls), new), Tail(calls), new)

RECURSIVE SetToSeq(_)
SetToSeq(S) ==
    IF S = {} THEN <<>>
    ELSE LET x == CHOOSE y \in S : TRUE IN <<x>> \o SetToSeq(S \ {x})

History(before, after, calls) ==
    /\ live' = TrackAll(live, calls, NewIds(before, after))
    /\ issued' = issued \o SetToSeq(NewIds(before, after))
    /\ pre' = before

\* a connection with no request on it
Idle == [pc |-> "idle", method |-> "", path |-> <<>>, body |-> <<>>,
         worker_id |-> None, worker |-> None]

Init ==
    /\ db = init_db(EmptyDb)
    /\ req = Request("init", "run_server", <<>>, <<>>, None, "", "", "")
    /\ resp = NoResponse(<<>>)
    /\ ret = None
    /\ live = << >>
    /\ issued = <<>>
    /\ pre = EmptyDb
    /\ flight = [s \in 1..NSlots |-> Idle]

\* the process is started again on the same workers.db
run_server ==
    /\ req.src # "init"
    /\ db' = init_db(db)
    /\ req' = Request("init", "run_server", <<>>, <<>>, None, "", "", "")
    /\ resp' = NoResponse(<<>>)
    /\ ret' = None
    /\ pre' = db
    /\ UNCHANGED <<live, issued, flight>>

\* ---- the store functions called directly ----

CallAdd ==
    \E w \in WorkerInputs :
        LET name == w[1]
            position == w[2]
            department == w[3]
            r == add_worker(db, name, position, department)
            c == StoreCall("add_worker", None, name, position, department)
        IN  /\ db.seq < MaxId
            /\ db' = r.db
            /\ req' = Request("call", "add_worker", <<>>, <<>>, None,
                              name, position, department)
            /\ resp' = NoResponse(<<c>>)
            /\ ret' = r.ret
            /\ History(db, r.db, <<c>>)
            /\ UNCHANGED flight

CallUpdate ==
    \E worker_id \in IdArgs, w \in WorkerInputs :
        LET name == w[1]
            position == w[2]
            department == w[3]
            r == update_worker(db, worker_id, name, position, department)
            c == StoreCall("update_worker", worker_id, name, position, department)
        IN  /\ db' = r.db
            /\ req' = Request("call", "update_worker", <<>>, <<>>, worker_id,
                              name, position, department)
            /\ resp' = NoResponse(<<c>>)
            /\ ret' = r.ret
            /\ History(db, r.db, <<c>>)
            /\ UNCHANGED flight

CallDelete ==
    \E worker_id \in IdArgs :
        LET r == delete_worker(db, worker_id)
            c == StoreCall("delete_worker", worker_id, "", "", "")
        IN  /\ db' = r.db
            /\ req' = Request("call", "delete_worker", <<>>, <<>>, worker_id,
                              "", "", "")
            /\ resp' = NoResponse(<<c>>)
            /\ ret' = r.ret
            /\ History(db, r.db, <<c>>)
            /\ UNCHANGED flight

CallGetById ==
    \E worker_id \in IdArgs :
        /\ req' = Request("call", "get_worker_by_id", <<>>, <<>>, worker_id,
                          "", "", "")
        /\ resp' = NoResponse(<<StoreCall("get_worker_by_id", worker_id, "", "", "")>>)
        /\ ret' = get_worker_by_id(db, worker_id)
        /\ pre' = db
        /\ UNCHANGED <<db, live, issued, flight>>

CallGetAll ==
    /\ req' = Request("call", "get_all_workers", <<>>, <<>>, None, "", "", "")
    /\ resp' = NoResponse(<<StoreCall("get_all_workers", None, "", "", "")>>)
    /\ ret' = [t |-> "list", v |-> get_all_workers(db)]
    /\ pre' = db
    /\ UNCHANGED <<db, live, issued, flight>>

\* ---- requests ----

Serve(method, path, body) ==
    LET r == handle_one_request(db, method, path, body)
    IN  /\ r.db.seq <= MaxId
        /\ db' = r.db
        /\ req' = Request("http", method, path, body, None, "", "", "")
        /\ resp' = r.resp
        /\ ret' = None
        /\ History(db, r.db, r.resp.calls)
        /\ UNCHANGED flight

Get == \E path \in Paths : Serve("GET", path, <<>>)

Post == \E path \in Paths, body \in Bodies : Serve("POST", path, body)

Other == \E method \in OtherMethods, path \in Paths : Serve(method, path, <<>>)

\* a request during which the k-th store call fails
ServeFailure ==
    \E method \in {"GET", "POST"}, path \in Paths, body \in Bodies, k \in 1..2 :
        LET r == handle_with_failure(db, method, path, body, k)
        IN  /\ method = "GET" => body = <<>>
            /\ Len(handle_one_request(db, method, path, body).resp.calls) >= k
            /\ db' = r.db
            /\ req' = Request("http", method, path, body, None, "", "", "")
            /\ resp' = r.resp
            /\ ret' = OperationalError
            /\ History(db, r.db, SubSeq(r.resp.calls, 1, k - 1))
            /\ UNCHANGED flight

Next ==
    \/ run_server
    \/ CallAdd
    \/ CallUpdate
    \/ CallDelete
    \/ CallGetById
    \/ CallGetAll
    \/ Get
    \/ Post
    \/ Other

Spec == Init /\ [][Next]_vars

\* the server receiving the forms of the end-to-end scenario
ScenarioPost == \E path \in Paths, body \in ScenarioBodies : Serve("POST", path, body)

NextScenario == Get \/ ScenarioPost

SpecScenario == Init /\ [][NextScenario]_vars

\* the server on a storage that can fail
NextFailure == Next \/ ServeFailure

SpecFailure == Init /\ [][NextFailure]_vars

\* ---- requests in flight ----

\* the requests sent on the open connections
FlightRequests ==
    {[method |-> "POST", path |-> <<"/", "workers", "/", "add">>,
      body |-> <<<<"name", "A">>, <<"position", "B">>, <<"department", "A">>>>]}
    \cup {[method |-> "POST",
           path |-> <<"/", "workers", "/", "edit", "/", DigitTok(i)>>,
           body |-> <<<<"name", "">>, <<"department", "B">>>>] : i \in 1..MaxId}
    \cup {[method |-> "GET",
           path |-> <<"/", "workers", "/", "delete", "/", DigitTok(i)>>,
           body |-> <<>>] : i \in 1..MaxId}

\* variant: ThreadingHTTPServer starts a handler thread for every connection
ServerFree_threading(f) == TRUE

\* HTTPServer.serve_forever handles a request to its end before it accepts
\* the next connection: no handler is between two of its statements
ServerFree(f) == \A s \in DOMAIN f : f[s].pc # "checked"

\* a client sends a request; it waits in the listen queue
Connect(s) ==
    \E r \in FlightRequests :
        /\ flight[s].pc = "idle"
        /\ flight' = [flight EXCEPT ![s] = [pc |-> "queued", method |-> r.method,
                                            path |-> r.path, body |-> r.body,
                                            worker_id |-> None, worker |-> None]]
        /\ UNCHANGED <<db, req, resp, ret, live, issued, pre>>

\* the handler runs up to its existence check; a request with no write after
\* a check is handled in one piece
Begin(s) ==
    LET f     == flight[s]
        parts == split(strip(urlparse_path(f.path)))
        two   == /\ Len(parts) = 3
                 /\ parts[1] = <<"workers">>
                 /\ \/ f.method = "GET" /\ parts[2] = <<"delete">>
                    \/ f.method = "POST" /\ parts[2] = <<"edit">>
    IN  /\ f.pc = "queued"
        /\ ServerFree(flight)
        /\ IF two /\ get_worker_by_id(db, PyStr(parts[3])) # None
           THEN /\ flight' = [flight EXCEPT
                                 ![s].pc = "checked",
                                 ![s].worker_id = PyStr(parts[3]),
                                 ![s].worker = get_worker_by_id(db, PyStr(parts[3]))]
                /\ UNCHANGED <<db, req, resp, ret, live, issued, pre>>
           ELSE LET r == handle_one_request(db, f.method, f.path, f.body)
                IN  /\ r.db.seq <= MaxId
                    /\ db' = r.db
                    /\ req' = Request("http", f.method, f.path, f.body,
                                      None, "", "", "")
                    /\ resp' = r.resp
                    /\ ret' = None
                    /\ History(db, r.db, r.resp.calls)
                    /\ flight' = [flight EXCEPT ![s] = Idle]

\* the handler goes on after "if worker:": the write, then the 200 page
Finish(s) ==
    LET f          == flight[s]
        data_dict  == parse_qsl(f.body)
        name       == dict_get(data_dict, "name", "")
        position   == dict_get(data_dict, "position", "")
        department == dict_get(data_dict, "department", "")
        r == IF f.method = "GET" THEN delete_worker(db, f.worker_id)
             ELSE update_worker(db, f.worker_id, name, position, department)
        c == IF f.method = "GET"
             THEN StoreCall("delete_worker", f.worker_id, "", "", "")
             ELSE StoreCall("update_worker", f.worker_id, name, position, department)
        calls == <<StoreCall("get_worker_by_id", f.worker_id, "", "", ""), c>>
    IN  /\ f.pc = "checked"
        /\ db' = r.db
        /\ req' = Request("http", f.method, f.path, f.body, None, "", "", "")
        /\ resp' = Page("message.html", None, <<>>, <<>>, f.worker_id.v, calls)
        /\ ret' = None
        /\ History(db, r.db, calls)
        /\ flight' = [flight EXCEPT ![s] = Idle]

NextFlight ==
    \E s \in 1..NSlots :
        \/ Connect(s)
        \/ Begin(s)
        \/ Finish(s)

SpecFlight == Init /\ [][NextFlight]_vars

\* ------------------------------------------------------------------------
\* Properties
\* ------------------------------------------------------------------------

\* the store calls of a given function made by the last call or request
LastCalls(fn) == {resp.calls[k] : k \in {j \in 1..Len(resp.calls) : resp.calls[j].fn = fn}}

\* the id the latest add assigned
AssignedId == issued[Len(issued)]

IsWorker(w, id, name, position, department) ==
    /\ w.t = "dict"
    /\ w.id = id
    /\ w.name = name
    /\ w.position = position
    /\ w.department = department

C2_DeleteFinality ==
    \A c \in LastCalls("delete_worker") :
        get_worker_by_id(pre, c.worker_id) # None =>
            /\ get_worker_by_id(db, c.worker_id) = None
            /\ delete_worker(db, c.worker_id).exc = ""
            /\ delete_worker(db, c.worker_id).db = db

C2_Witness ==
    /\ req.method = "delete_worker"
    /\ get_worker_by_id(pre, req.worker_id) # None
    /\ DOMAIN db.rows # {}

ListMatchesHistory(l) ==
    /\ Len(l) = Cardinality(DOMAIN live)
    /\ {l[k].id : k \in 1..Len(l)} = DOMAIN live
    /\ \A k \in 1..Len(l) :
          Fields(l[k].name, l[k].position, l[k].department) = live[l[k].id]

\* C3: listAll() has exactly one entry for each id added and not since
\* deleted, none for any other id, and each entry carries the values of the
\* latest add or update applied to its id.
C3_ListCompleteness ==
    /\ ListMatchesHistory(get_all_workers(db))
    /\ req.method = "get_all_workers" => ListMatchesHistory(ret.v)
    /\ resp.template = "workers_list.html" => ListMatchesHistory(resp.workers)

C3_Witness ==
    /\ req.method = "get_all_workers"
    /\ Len(ret.v) = 1
    /\ Len(issued) = 2
    /\ ret.v[1].name = "B"

\* C4: update(id, a, b, c) executed a second time leaves the store as the
\* first execution left it.
C4_UpdateIdempotent ==
    \A c \in LastCalls("update_worker") :
        LET r == update_worker(db, c.worker_id, c.name, c.position, c.department)
        IN  r.exc = "" /\ r.db = db

C4_Witness ==
    /\ req.method = "update_worker"
    /\ pre # db
    /\ Cardinality(DOMAIN db.rows) = 2

EditPath(seg) == <<"/", "workers", "/", "edit", "/">> \o seg

\* the stored ids a path segment denotes
SegIds(seg) == {i \in DOMAIN live : IsNumeric(seg) /\ NumVal(seg) = i}

\* C5: GET /workers/edit/{id} answers 404 when no worker with that id is
\* stored; otherwise 200, with the form given the stored name, position and
\* department of that id and the action /workers/edit/{id}.
C5_EditForm ==
    (req.src = "http" /\ req.method = "GET") =>
        \A seg \in IdSegs :
            req.path = EditPath(seg) =>
                IF SegIds(seg) = {} THEN resp.status = 404
                ELSE /\ resp.status = 200
                     /\ resp.action = EditPath(seg)
                     /\ \A i \in SegIds(seg) :
                           IsWorker(resp.worker, i, live[i].name,
                                    live[i].position, live[i].department)

C5_Witness ==
    /\ req.src = "http" /\ req.method = "GET"
    /\ req.path = EditPath(<<"1">>)
    /\ resp.status = 200
    /\ resp.worker.t = "dict"
    /\ resp.worker.position = "B"

\* the seven rows of the dispatch table, matched as the path-parsing rule says
InTable(method, path) ==
    LET full == urlparse_path(path)
        segs == split(strip(full))
        three(word) == Len(segs) = 3 /\ segs[1] = <<"workers">> /\ segs[2] = <<word>>
    IN  \/ /\ method = "GET"
           /\ \/ full = <<"/">>
              \/ full = <<"/", "workers">>
              \/ segs = <<<<"workers">>, <<"add">>>>
              \/ three("edit")
              \/ three("delete")
        \/ /\ method = "POST"
           /\ \/ segs = <<<<"workers">>, <<"add">>>>
              \/ three("edit")

C8_IdsNeverReused ==
    /\ \A i, j \in 1..Len(issued) : i < j => issued[i] < issued[j]
    /\ \A id \in NewIds(pre, db) :
          \A k \in 1..(Len(issued) - 1) : issued[k] < id
    /\ LET l == get_all_workers(db)
       IN  \A i, j \in 1..Len(l) : i # j => l[i].id # l[j].id

\* the record with the largest id was deleted and an add followed
C8_Witness ==
    /\ LastCalls("add_worker") # {}
    /\ Len(issued) >= 2
    /\ DOMAIN db.rows = {AssignedId}

FormKeys == {"name", "position", "department"}

HasKey(body, key) == \E k \in 1..Len(body) : body[k][1] = key

\* the rows the last request wrote
WrittenIds ==
    NewIds(pre, db) \cup
    {i \in DOMAIN db.rows :
        \E c \in LastCalls("update_worker") : IdMatches(i, c.worker_id)}

\* C9: every stored name, position and department is a text value, never
\* null; a key the form body of POST /workers/add or POST /workers/edit/{id}
\* does not carry is stored as the empty string.
C9_NoNullField ==
    /\ \A i \in DOMAIN db.rows :
          /\ db.rows[i].name \in Text
          /\ db.rows[i].position \in Text
          /\ db.rows[i].department \in Text
    /\ (req.src = "http" /\ req.method = "POST") =>
          \A i \in WrittenIds, key \in FormKeys :
              ~HasKey(req.body, key) => db.rows[i][key] = ""

C9_Witness ==
    /\ req.src = "http" /\ req.method = "POST"
    /\ req.body = <<<<"name", "">>, <<"department", "B">>>>
    /\ resp.status = 200
    /\ \E i \in WrittenIds :
          db.rows[i] = Fields("", "", "B")

AddPath == <<"/", "workers", "/", "add">>

\* the value v is the one the body gives for the key, "" when it gives none
FieldFromBody(body, key, v) ==
    LET vs == {body[k][2] : k \in {j \in 1..Len(body) : body[j][1] = key}}
    IN  IF vs = {} THEN v = "" ELSE v \in vs

\* C10: POST /workers/add answers 200 and adds exactly one record, whose
\* fields are the body's name, position and department ("" for a missing
\* key); every record stored before the request is unchanged.
C10_PostAdd ==
    (req.src = "http" /\ req.method = "POST" /\ req.path = AddPath) =>
        /\ resp.status = 200
        /\ \E id \in DOMAIN db.rows :
              /\ NewIds(pre, db) = {id}
              /\ DOMAIN db.rows = DOMAIN pre.rows \cup {id}
              /\ FieldFromBody(req.body, "name", db.rows[id].name)
              /\ FieldFromBody(req.body, "position", db.rows[id].position)
              /\ FieldFromBody(req.body, "department", db.rows[id].department)
        /\ \A i \in DOMAIN pre.rows : db.rows[i] = pre.rows[i]

C10_Witness ==
    /\ req.src = "http" /\ req.method = "POST" /\ req.path = AddPath
    /\ req.body = <<<<"name", "A">>, <<"position", "B">>, <<"department", "A">>>>
    /\ resp.status = 200
    /\ DOMAIN pre.rows # {}
    /\ Cardinality(DOMAIN db.rows) = 2

DeletePath(seg) == <<"/", "workers", "/", "delete", "/">> \o seg

\* the ids of S a path segment denotes
IdsOf(seg, S) == {i \in S : IsNumeric(seg) /\ NumVal(seg) = i}

\* C11: POST /workers/edit/{id} answers 404 and leaves the store unchanged
\* when no worker with that id is stored; otherwise it answers 200, the three
\* fields of that record become the body's values ("" for a missing key), the
\* record keeps its id and no other record changes.
C11_PostEdit ==
    (req.src = "http" /\ req.method = "POST") =>
        \A seg \in IdSegs :
            req.path = EditPath(seg) =>
                LET ids == IdsOf(seg, DOMAIN pre.rows)
                IN  IF ids = {}
                    THEN resp.status = 404 /\ db = pre
                    ELSE /\ resp.status = 200
                         /\ DOMAIN db.rows = DOMAIN pre.rows
                         /\ db.seq = pre.seq
                         /\ \A i \in ids :
                               /\ FieldFromBody(req.body, "name", db.rows[i].name)
                               /\ FieldFromBody(req.body, "position",
                                                db.rows[i].position)
                               /\ FieldFromBody(req.body, "department",
                                                db.rows[i].department)
                         /\ \A i \in DOMAIN pre.rows \ ids :
                               db.rows[i] = pre.rows[i]

C11_Witness ==
    /\ req.src = "http" /\ req.method = "POST"
    /\ req.path = EditPath(<<"1">>)
    /\ req.body = <<<<"name", "A">>, <<"position", "B">>, <<"department", "A">>>>
    /\ resp.status = 200
    /\ Cardinality(DOMAIN db.rows) = 2
    /\ pre # db

\* C12: GET /workers/delete/{id} answers 200 exactly when a worker with that
\* id is stored, and then removes that record and no other; otherwise it
\* answers 404 and changes nothing. The same request made again right after
\* it is answered 404.
C12_GetDelete ==
    (req.src = "http" /\ req.method = "GET") =>
        \A seg \in IdSegs :
            req.path = DeletePath(seg) =>
                LET ids == IdsOf(seg, DOMAIN pre.rows)
                IN  /\ IF ids = {}
                       THEN resp.status = 404 /\ db = pre
                       ELSE /\ resp.status = 200
                            /\ DOMAIN db.rows = DOMAIN pre.rows \ ids
                            /\ db.seq = pre.seq
                            /\ \A i \in DOMAIN db.rows : db.rows[i] = pre.rows[i]
                    /\ handle_one_request(db, "GET", req.path, <<>>).resp.status = 404

C12_Witness ==
    /\ req.src = "http" /\ req.method = "GET"
    /\ req.path = DeletePath(<<"1">>)
    /\ resp.status = 200
    /\ DOMAIN db.rows # {}

\* C14: an identifier that is not an integer literal is treated as not found:
\* getById returns absent, GET/POST /workers/edit/{id} and
\* GET /workers/delete/{id} answer 404, no exception escapes and the store is
\* unchanged.
C14_NonIntegerIdNotFound ==
    \A seg \in IdSegs :
        ~IsNumeric(seg) =>
            /\ get_worker_by_id(db, PyStr(seg)) = None
            /\ (/\ req.src = "http"
                /\ \/ req.method \in {"GET", "POST"} /\ req.path = EditPath(seg)
                   \/ req.method = "GET" /\ req.path = DeletePath(seg))
               => /\ resp.status = 404
                  /\ ret = None
                  /\ db = pre

C14_Witness ==
    /\ req.src = "http" /\ req.method = "GET"
    /\ req.path = DeletePath(<<"x">>)
    /\ resp.status = 404
    /\ Cardinality(DOMAIN db.rows) = 2

\* the path has exactly the segments workers, add
IsAddRoute(path) ==
    split(strip(urlparse_path(path))) = <<<<"workers">>, <<"add">>>>

\* C18: for every path whose segments are exactly [workers, add], GET renders
\* the empty form with 200 and POST adds one record and answers 200.
C18_AddRouteBothMethods ==
    (req.src = "http" /\ IsAddRoute(req.path)) =>
        /\ req.method = "GET" =>
              /\ resp.status = 200
              /\ resp.template = "worker_form.html"
              /\ resp.worker = None
        /\ req.method = "POST" =>
              /\ resp.status = 200
              /\ Cardinality(NewIds(pre, db)) = 1

\* C19: the set of stored ids grows only by an add (over HTTP: a POST
\* /workers/add answered 200), by exactly one new id, and shrinks only by a
\* delete (over HTTP: a GET /workers/delete/{id} answered 200), by exactly
\* that id; update never changes the set of ids; update or delete of an id
\* that is not stored changes nothing; GET /, /workers, /workers/add and
\* /workers/edit/{id} and every request answered 404 leave the store unchanged.
C19_LifecycleFrame ==
    LET grown  == DOMAIN db.rows \ DOMAIN pre.rows
        shrunk == DOMAIN pre.rows \ DOMAIN db.rows
    IN
    /\ grown # {} =>
          /\ Cardinality(grown) = 1 /\ shrunk = {}
          /\ LastCalls("add_worker") # {}
          /\ req.src = "http" =>
                req.method = "POST" /\ req.path = AddPath /\ resp.status = 200
    /\ shrunk # {} =>
          /\ grown = {}
          /\ \E c \in LastCalls("delete_worker") :
                shrunk = {i \in DOMAIN pre.rows : IdMatches(i, c.worker_id)}
          /\ req.src = "http" =>
                /\ req.method = "GET" /\ resp.status = 200
                /\ \E seg \in IdSegs :
                      /\ req.path = DeletePath(seg)
                      /\ shrunk = IdsOf(seg, DOMAIN pre.rows)
    /\ LastCalls("update_worker") # {} => grown = {} /\ shrunk = {}
    /\ \A c \in LastCalls("update_worker") \cup LastCalls("delete_worker") :
          (req.src = "call" /\ get_worker_by_id(pre, c.worker_id) = None)
              => db = pre
    /\ (req.src = "http" /\ resp.status = 404) => db = pre
    /\ (req.src = "http" /\ req.method = "GET"
        /\ \/ req.path \in {<<"/">>, <<"/", "workers">>, AddPath}
           \/ \E seg \in IdSegs : req.path = EditPath(seg))
       => db = pre

C19_Witness ==
    /\ req.src = "http" /\ req.method = "GET"
    /\ req.path = DeletePath(<<"2">>)
    /\ resp.status = 200
    /\ DOMAIN pre.rows = {1, 2}
    /\ DOMAIN db.rows = {1}

C15_FailureIsServerError ==
    (req.src = "http" /\ ret = OperationalError) =>
        /\ resp.status \in 500..599
        /\ resp.status # 200
        /\ db = pre

AliceRows == 1 :> Fields("Alice", "Engineer", "R&D")

LeadRows == 1 :> Fields("Alice", "Lead", "R&D")

IsGet(path) == req.src = "http" /\ req.method = "GET" /\ req.path = path

IsPost(path, body) ==
    req.src = "http" /\ req.method = "POST" /\ req.path = path /\ req.body = body

\* C16: from an empty store, POST /workers/add (Alice, Engineer, R&D) answers
\* 200 and stores the record under id 1; GET /workers then lists exactly that
\* entry; POST /workers/edit/1 (Alice, Lead, R&D) answers 200; GET
\* /workers/edit/1 then pre-fills Lead; GET /workers/delete/1 answers 200;
\* GET /workers then lists no entry.
C16_EndToEnd ==
    /\ (IsPost(AddPath, AliceBody) /\ pre = EmptyDb) =>
          /\ resp.status = 200
          /\ resp.message = <<"Alice">>
          /\ db.rows = AliceRows
    /\ (IsGet(<<"/", "workers">>) /\ db.rows = AliceRows) =>
          /\ resp.status = 200
          /\ Len(resp.workers) = 1
          /\ IsWorker(resp.workers[1], 1, "Alice", "Engineer", "R&D")
    /\ (IsPost(EditPath(<<"1">>), LeadBody) /\ pre.rows = AliceRows) =>
          /\ resp.status = 200
          /\ db.rows = LeadRows
    /\ (IsGet(EditPath(<<"1">>)) /\ db.rows = LeadRows) =>
          /\ resp.status = 200
          /\ IsWorker(resp.worker, 1, "Alice", "Lead", "R&D")
    /\ (IsGet(DeletePath(<<"1">>)) /\ pre.rows = LeadRows) =>
          /\ resp.status = 200
          /\ db.rows = << >>
    /\ (IsGet(<<"/", "workers">>) /\ db.rows = << >>) =>
          /\ resp.status = 200
          /\ resp.workers = <<>>

\* the scenario's delete, after its add and its edit
C16_Witness ==
    /\ IsGet(DeletePath(<<"1">>))
    /\ pre.rows = LeadRows
    /\ issued = <<1>>
    /\ live = << >>
    /\ resp.status = 200

\* C17: with several requests in flight, no write of another request falls
\* between a request's existence check and its update or delete; every 200
\* answer to POST /workers/edit/{id} or GET /workers/delete/{id} comes from an
\* update or delete that affected exactly one record stored at that moment, so
\* no two deletes of one id are both answered 200.
C17_CheckThenWrite ==
    /\ \A s \in 1..NSlots :
          flight[s].pc = "checked" =>
              get_worker_by_id(db, flight[s].worker_id) = flight[s].worker
    /\ (req.src = "http" /\ resp.status = 200) =>
          /\ \A c \in LastCalls("update_worker") \cup LastCalls("delete_worker") :
                Cardinality({i \in DOMAIN pre.rows : IdMatches(i, c.worker_id)}) = 1
          /\ \A c \in LastCalls("delete_worker") :
                Cardinality(DOMAIN pre.rows \ DOMAIN db.rows) = 1

\* a delete is answered 200 while another delete of the same id is in flight
C17_Witness ==
    \E t \in 1..NSlots :
        /\ flight[t].pc = "queued"
        /\ flight[t].method = "GET"
        /\ flight[t].path = req.path
        /\ req.src = "http"
        /\ req.method = "GET"
        /\ resp.status = 200
        /\ LastCalls("delete_worker") # {}

====
